---- MODULE Spec2Model ----
(***************************************************************************)
(* Model of the ledger core of simple_cryptocurrency_rs:                   *)
(*   src/src/blockchain/transaction.rs   Transaction, Input, Output        *)
(*   src/src/blockchain/block.rs         Block, chain log, mining, rewind  *)
(*   src/src/blockchain/global_state.rs  GlobalState                       *)
(*                                                                         *)
(* Conventions.                                                            *)
(*  - A byte is a number in 0..255, a byte string a sequence of bytes.     *)
(*  - A u32 amount is a record [hi, lo] of two 16-bit limbs, so that the   *)
(*    32-bit width is exact (TLC's integers stop at 2^31 - 1).             *)
(*  - SHA-256 and ECDSA are external libraries.  Sha256 is a deterministic *)
(*    32-byte digest of the serialized bytes; a signature is a             *)
(*    deterministic tag of (key, message), as RFC 6979 ECDSA is.           *)
(*  - bincode's encoding (fixed-width little-endian integers, u64 length   *)
(*    prefixes, fields in declaration order) is modelled byte by byte; a   *)
(*    key takes KeyLen bytes and a signature SigLen bytes.                 *)
(***************************************************************************)
EXTENDS Integers, Sequences, FiniteSets, TLC

VARIABLES
    overflow_checks,      \* build profile: TRUE = u32 overflow panics, FALSE = wraps
    difficulty,           \* GlobalState.difficulty
    reward,               \* GlobalState.reward
    block_height,         \* GlobalState.block_height
    previous_block_hash,  \* GlobalState.previous_block_hash
    utxo_set,             \* GlobalState.utxo_set
    mempool,              \* GlobalState.mempool
    file,                 \* bytes of ./.state/chain
    pos,                  \* cursor of the chain file handle
    blk,                  \* the Block a caller is building / mining
    op,                   \* the operation that ran last: its argument, result and pre-state
    hist,                 \* history: the UTXO set each block of the chain was applied to
    log,                  \* history: what was written to the chain file
    swf,                  \* one StateWithFile: its type, value, backing file and cursor
    pending_set,          \* the pending set shared by the rewinds of a reorganisation
    conn                  \* one TcpStream a peer writes to and wait_for_magic reads

vars == <<overflow_checks, difficulty, reward, block_height, previous_block_hash,
          utxo_set, mempool, file, pos, blk, op, hist, log, swf, pending_set,
          conn>>

----------------------------------------------------------------------------
(* Bounds of the model *)

MaxHeight == 2
MaxDifficulty == 1
MaxNonce == 1
MaxMineNonce == 40
MaxMineDifficulty == 2
MaxBlockTxs == 2
MaxRecords == 3
\* constructions of a StateWithFile on one backing file
MaxOpens == 2
\* transactions in the mempool
MaxMempool == 6
\* bytes a peer sends on one connection
MaxStream == 6
\* failed reads on one connection
MaxReadErrors == 1

(* Program constants *)

HashLen == 32
DefaultReward == 10
LenBytes == 4
NonceBytes == 8

(* Serialized widths of an ed25519 VerifyingKey and Signature *)
KeyLen == 32
SigLen == 64

----------------------------------------------------------------------------
(* Bytes and fixed-width little-endian integers *)

RECURSIVE LE(_, _)
LE(n, k) == IF k = 0 THEN << >> ELSE <<n % 256>> \o LE(n \div 256, k - 1)

Zeros(k) == [i \in 1..k |-> 0]

\* The value of the little-endian bytes bs[from..from+k-1]; -1 stands for a
\* value of 2^24 or more (larger than any buffer of the model).
LEValue(bs, from, k) ==
    IF \E i \in 3..(k - 1) : bs[from + i] # 0
    THEN -1
    ELSE bs[from] + 256 * bs[from + 1] + 65536 * bs[from + 2]

Slice(bs, from, k) == [i \in 1..k |-> bs[from + i - 1]]

----------------------------------------------------------------------------
(* u32 arithmetic *)

Limb == 65536

N(n) == [hi |-> 0, lo |-> n]
U32Zero == N(0)
U32Max == [hi |-> Limb - 1, lo |-> Limb - 1]
Pow31 == [hi |-> Limb \div 2, lo |-> 0]

U32Le(a, b) == a.hi < b.hi \/ (a.hi = b.hi /\ a.lo <= b.lo)

\* a + b on u32: the wrapped value, and whether the build panics on it
U32Add(a, b) ==
    LET l == a.lo + b.lo
        h == a.hi + b.hi + (l \div Limb)
    IN  [val   |-> [hi |-> h % Limb, lo |-> l % Limb],
         panic |-> overflow_checks /\ h >= Limb]

\* a - b on u32, used by the code only when b <= a
U32Sub(a, b) ==
    LET borrow == IF a.lo < b.lo THEN 1 ELSE 0
    IN  [hi |-> (a.hi - b.hi - borrow + Limb) % Limb,
         lo |-> (a.lo - b.lo + Limb) % Limb]

U32Bytes(a) == LE(a.lo, 2) \o LE(a.hi, 2)

U32FromBytes(bs, from) ==
    [hi |-> bs[from + 2] + 256 * bs[from + 3], lo |-> bs[from] + 256 * bs[from + 1]]

----------------------------------------------------------------------------
(* External primitives *)

\* The digest state after absorbing the bytes bs from the state seed:
\* seed * 31^n + sum of (bs[i] + 1) * 31^(n - i), modulo the prime DigestPrime,
\* computed by halving so that long inputs do not nest deeply.
DigestPrime == 32749

RECURSIVE PowMod(_)
PowMod(k) ==
    IF k = 0 THEN 1
    ELSE IF k % 2 = 0 THEN LET h == PowMod(k \div 2) IN (h * h) % DigestPrime
    ELSE (31 * PowMod(k - 1)) % DigestPrime

RECURSIVE Poly(_, _, _)
Poly(bs, lo, hi) ==
    IF lo > hi THEN 0
    ELSE IF lo = hi THEN (bs[lo] + 1) % DigestPrime
    ELSE LET mid == (lo + hi) \div 2
         IN  (Poly(bs, lo, mid) * PowMod(hi - mid) + Poly(bs, mid + 1, hi)) % DigestPrime

Absorb(bs, seed) == (seed * PowMod(Len(bs)) + Poly(bs, 1, Len(bs))) % DigestPrime

Sha256(bs) ==
    LET s == Absorb(bs, 7)
    IN  [i \in 1..HashLen |->
            ((s * (2 * i + 1) + (s \div 7) * i + 37 * i * i) % 257) % 256]

\* key.sign(msg): the deterministic signature of msg under key k
Sign(k, msg) == Absorb(msg, 1000 + 977 * k)

\* pub_key.verify(msg, sig)
Verify(k, msg, sig) == sig = Sign(k, msg)

----------------------------------------------------------------------------
(* transaction.rs: Output, InputCore, Input, Transaction *)

Output(key, amount) == [to_pubkey |-> key, amount |-> amount]

InputCore(id, output_id) == [tx_id |-> id, output_id |-> output_id]

SerCore(core) == core.tx_id \o LE(core.output_id, 4)

SerKey(k) == LE(k, KeyLen)

SerSig(s) == LE(s, SigLen)

SerTime(t) == LE(t, 8) \o LE(0, 4)

SerOutput(o) == SerKey(o.to_pubkey) \o U32Bytes(o.amount)

SerInput(i) == SerCore(i.core) \o SerSig(i.signature)

RECURSIVE SerInputs(_, _)
SerInputs(ins, i) ==
    IF i > Len(ins) THEN << >> ELSE SerInput(ins[i]) \o SerInputs(ins, i + 1)

RECURSIVE SerOutputs(_, _)
SerOutputs(outs, i) ==
    IF i > Len(outs) THEN << >> ELSE SerOutput(outs[i]) \o SerOutputs(outs, i + 1)

\* bincode::serialize(&Transaction)
SerTx(tx) ==
    SerTime(tx.time_stamp)
    \o LE(Len(tx.inputs), 8) \o SerInputs(tx.inputs, 1)
    \o LE(Len(tx.outputs), 8) \o SerOutputs(tx.outputs, 1)

\* PartialInput::sign
sign(id, output_id, key) ==
    [core |-> InputCore(id, output_id),
     signature |-> Sign(key, SerCore(InputCore(id, output_id)))]

\* Input::verify
verify(input, pub_key) == Verify(pub_key, SerCore(input.core), input.signature)

Transaction(ts, ins, outs) == [time_stamp |-> ts, inputs |-> ins, outputs |-> outs]

\* Transaction::calculate_id
calculate_id(tx) == Sha256(SerTx(tx))

----------------------------------------------------------------------------
(* The transactions the model draws its inputs from.  Keys 1 and 2 are two  *)
(* wallets; a signing key and its verifying key carry the same number.     *)

Wallets == <<1, 2>>
K1 == Wallets[1]
K2 == Wallets[2]

\* coinbase claiming the reward (scenario 1 of the specification)
TxCb10 == Transaction(1, << >>, <<Output(K1, N(10))>>)
IdCb10 == calculate_id(TxCb10)

\* coinbase claiming reward + fee 1 (scenario 2)
TxCb11 == Transaction(2, << >>, <<Output(K2, N(11))>>)

\* T2 of scenario 2: spends the first coinbase to 4 and 5, fee 1
TxSpend == Transaction(3, <<sign(IdCb10, 0, K1)>>,
                          <<Output(K2, N(4)), Output(K1, N(5))>>)
IdSpend == calculate_id(TxSpend)

\* T2' of scenario 4: the same, signed with the wrong key
TxBadSig == Transaction(3, <<sign(IdCb10, 0, K2)>>,
                           <<Output(K2, N(4)), Output(K1, N(5))>>)

\* spends output 0 of TxSpend, no fee
TxSpend2 == Transaction(4, <<sign(IdSpend, 0, K2)>>, <<Output(K1, N(4))>>)

\* input 0 exists, input 1 names an output index the coinbase never had
TxMissing1 == Transaction(5, <<sign(IdCb10, 0, K1), sign(IdCb10, 7, K1)>>,
                             <<Output(K2, N(3))>>)

\* input 0 is signed with the wrong key, input 1 does not exist
TxBadSig0Missing1 == Transaction(6, <<sign(IdCb10, 0, K2), sign(IdCb10, 7, K1)>>,
                                    <<Output(K2, N(3))>>)

\* no inputs, outputs 2^31 + 2^31
TxTwoHalves == Transaction(7, << >>, <<Output(K1, Pow31), Output(K2, Pow31)>>)

\* no inputs, outputs (2^32 - 1) + 11
TxWrap == Transaction(8, << >>, <<Output(K1, U32Max), Output(K1, N(11))>>)

\* no inputs, one output 2^31 + 5
TxHalf == Transaction(9, << >>, <<Output(K2, [hi |-> Limb \div 2, lo |-> 5])>>)

\* a missing input and outputs 2^32 - 1 + 1
TxWrapMissing == Transaction(10, <<sign(Zeros(HashLen), 0, K1)>>,
                                 <<Output(K1, U32Max), Output(K1, N(1))>>)

TxUniverse == {TxCb10, TxCb11, TxSpend, TxBadSig, TxSpend2, TxMissing1,
               TxBadSig0Missing1, TxTwoHalves, TxWrap, TxHalf, TxWrapMissing}

----------------------------------------------------------------------------
(* transaction.rs: Transaction::is_valid *)

TxResult(kind, val) == [kind |-> kind, val |-> val]

TxPanic == TxResult("Panic", U32Zero)

\* self.outputs.iter().fold(0, |acc, val| acc + val.amount)
RECURSIVE FoldOutputs(_, _, _)
FoldOutputs(outs, i, acc) ==
    IF i > Len(outs) THEN [val |-> acc, panic |-> FALSE]
    ELSE LET s == U32Add(acc, outs[i].amount)
         IN  IF s.panic THEN s ELSE FoldOutputs(outs, i + 1, s.val)

RECURSIVE InputLoop(_, _, _, _, _)
InputLoop(tx, utxo, i, total_input, total_output) ==
    IF i > Len(tx.inputs)
    THEN IF U32Le(total_output, total_input)
         THEN TxResult("Ok", U32Sub(total_input, total_output))
         ELSE TxResult("InvalidOutputAmount", U32Sub(total_output, total_input))
    ELSE LET input == tx.inputs[i]
             key == <<input.core.tx_id, input.core.output_id>>
         IN  IF key \notin DOMAIN utxo
             THEN TxResult("InputDoesNotExist", N(i - 1))
             ELSE IF ~verify(input, utxo[key].to_pubkey)
             THEN TxResult("InvalidSignature", N(i - 1))
             ELSE LET s == U32Add(total_input, utxo[key].amount)
                  IN  IF s.panic THEN TxPanic
                      ELSE InputLoop(tx, utxo, i + 1, s.val, total_output)

is_valid(tx, utxo) ==
    LET total_output == FoldOutputs(tx.outputs, 1, U32Zero)
    IN  IF total_output.panic THEN TxPanic
        ELSE InputLoop(tx, utxo, 1, U32Zero, total_output.val)

----------------------------------------------------------------------------
(* block.rs: Block *)

Block(prev, ts, txs, nonce) ==
    [previous_block |-> prev, time_stamp |-> ts, tx_list |-> txs, nonce |-> nonce]

\* Block::new
NewBlock(ts) == Block(Zeros(HashLen), ts, << >>, 0)

RECURSIVE SerTxs(_, _)
SerTxs(txs, i) ==
    IF i > Len(txs) THEN << >> ELSE SerTx(txs[i]) \o SerTxs(txs, i + 1)

\* bincode::serialize(&Block): the nonce is the last field
SerBlock(b) ==
    b.previous_block \o SerTime(b.time_stamp)
    \o LE(Len(b.tx_list), 8) \o SerTxs(b.tx_list, 1)
    \o LE(b.nonce, NonceBytes)

\* Block::add
add(b, tx) == [b EXCEPT !.tx_list = Append(@, tx)]

\* Block::set_previous_block
set_previous_block(b, previous) == [b EXCEPT !.previous_block = previous]

\* Block::hash
hash(b) == Sha256(SerBlock(b))

\* are_first_n_bits_equal(slice1, slice2, n)
are_first_n_bits_equal(slice1, slice2, n) ==
    LET full_bytes == n \div 8
        remaining_bits == n % 8
        mask == 2 ^ remaining_bits
    IN  IF Len(slice1) < full_bytes \/ Len(slice2) < full_bytes THEN FALSE
        ELSE IF Slice(slice1, 1, full_bytes) # Slice(slice2, 1, full_bytes) THEN FALSE
        ELSE IF remaining_bits > 0
             THEN slice1[full_bytes + 1] % mask = slice2[full_bytes + 1] % mask
             ELSE TRUE

\* the reward loop with a transaction that fails validation skipped instead
\* of rejecting the block
RECURSIVE RewardLoopSkipInvalid(_, _, _, _, _)
RewardLoopSkipInvalid(b, utxo, i, expected_miner_reward, actual_miner_reward) ==
    IF i > Len(b.tx_list)
    THEN IF expected_miner_reward # actual_miner_reward
         THEN "InvalidMinerReward" ELSE "Ok"
    ELSE IF is_valid(b.tx_list[i], utxo).kind = "Ok"
    THEN RewardLoopSkipInvalid(b, utxo, i + 1,
            U32Add(expected_miner_reward, is_valid(b.tx_list[i], utxo).val).val,
            actual_miner_reward)
    ELSE IF is_valid(b.tx_list[i], utxo).kind = "InvalidOutputAmount"
    THEN RewardLoopSkipInvalid(b, utxo, i + 1, expected_miner_reward,
            U32Add(actual_miner_reward, is_valid(b.tx_list[i], utxo).val).val)
    ELSE RewardLoopSkipInvalid(b, utxo, i + 1, expected_miner_reward,
                               actual_miner_reward)

\* the loop of Block::is_valid_block over tx_list
RECURSIVE RewardLoop(_, _, _, _, _)
RewardLoop(b, utxo, i, expected_miner_reward, actual_miner_reward) ==
    IF i > Len(b.tx_list)
    THEN IF expected_miner_reward # actual_miner_reward
         THEN "InvalidMinerReward" ELSE "Ok"
    ELSE LET r == is_valid(b.tx_list[i], utxo)
         IN  CASE r.kind = "Panic" -> "Panic"
               [] r.kind = "Ok" ->
                    LET s == U32Add(expected_miner_reward, r.val)
                    IN  IF s.panic THEN "Panic"
                        ELSE RewardLoop(b, utxo, i + 1, s.val, actual_miner_reward)
               [] r.kind = "InvalidOutputAmount" ->
                    LET s == U32Add(actual_miner_reward, r.val)
                    IN  IF s.panic THEN "Panic"
                        ELSE RewardLoop(b, utxo, i + 1, expected_miner_reward, s.val)
               [] OTHER -> "InvalidTransaction"

\* Block::is_valid_block
is_valid_block(b, d, rw, utxo) ==
    IF ~are_first_n_bits_equal(Zeros(HashLen), hash(b), d)
    THEN "InvalidHash"
    ELSE RewardLoop(b, utxo, 1, rw, U32Zero)

\* the loop of Block::mine: the nonce it stores, or -1 when it has not
\* returned after MaxMineNonce increments
RECURSIVE MineLoop(_, _, _)
MineLoop(serialized_block, nonce, d) ==
    IF are_first_n_bits_equal(Zeros(HashLen), Sha256(serialized_block), d)
    THEN nonce
    ELSE IF nonce >= MaxMineNonce THEN -1
    ELSE MineLoop(Slice(serialized_block, 1, Len(serialized_block) - NonceBytes)
                    \o LE(nonce + 1, NonceBytes),
                  nonce + 1, d)

\* Block::mine
mine(b, d) == MineLoop(SerBlock(b), 0, d)

----------------------------------------------------------------------------
(* bincode::deserialize of a Block, from the bytes bs.  The encoding has   *)
(* fixed-size elements, so the place of every field follows from the two   *)
(* length prefixes before it.  Trailing bytes are allowed, as bincode's    *)
(* top-level deserialize allows them.  A length, time stamp, output index  *)
(* or nonce of 2^24 or more, or a non-zero nanosecond field, is outside    *)
(* the values the model writes and is reported as a failure.               *)

InputSize == HashLen + 4 + SigLen
OutputSize == KeyLen + 4
TimeSize == 12

Failed == [ok |-> FALSE, val |-> << >>, next |-> 0]

Parsed(v, next) == [ok |-> TRUE, val |-> v, next |-> next]

Has(bs, p, k) == p >= 1 /\ p + k - 1 <= Len(bs)

\* a key or a signature of k bytes; -1 stands for every value of 2^24 or more,
\* which is no key and no signature of the model
LENat(bs, from, k) == LEValue(bs, from, k)

\* a u64 length prefix at p, or -1
CountAt(bs, p) == IF Has(bs, p, 8) THEN LEValue(bs, p, 8) ELSE -1

TimeOk(bs, p) == Has(bs, p, TimeSize) /\ LEValue(bs, p, 8) >= 0 /\ LEValue(bs, p + 8, 4) = 0

InputAt(bs, p) ==
    [core |-> InputCore(Slice(bs, p, HashLen), LEValue(bs, p + HashLen, 4)),
     signature |-> LENat(bs, p + HashLen + 4, SigLen)]

OutputAt(bs, p) == Output(LENat(bs, p, KeyLen), U32FromBytes(bs, p + KeyLen))

\* the index after the Transaction encoded at p, or -1 when none decodes there
TxEnd(bs, p) ==
    LET n_in == CountAt(bs, p + TimeSize)
        q == p + TimeSize + 8 + n_in * InputSize
        n_out == CountAt(bs, q)
        e == q + 8 + n_out * OutputSize
    IN  IF ~TimeOk(bs, p) \/ n_in < 0 \/ n_in * InputSize > Len(bs) THEN -1
        ELSE IF n_out < 0 \/ n_out * OutputSize > Len(bs) \/ e - 1 > Len(bs) THEN -1
        ELSE IF \E i \in 1..n_in :
                  LEValue(bs, p + TimeSize + 8 + (i - 1) * InputSize + HashLen, 4) < 0
        THEN -1
        ELSE e

\* the Transaction encoded at p, when TxEnd(bs, p) is not -1
TxAt(bs, p) ==
    LET n_in == CountAt(bs, p + TimeSize)
        q == p + TimeSize + 8 + n_in * InputSize
        n_out == CountAt(bs, q)
    IN  Transaction(LEValue(bs, p, 8),
            [i \in 1..n_in |-> InputAt(bs, p + TimeSize + 8 + (i - 1) * InputSize)],
            [j \in 1..n_out |-> OutputAt(bs, q + 8 + (j - 1) * OutputSize)])

RECURSIVE ParseTxs(_, _, _, _)
ParseTxs(bs, p, n, acc) ==
    IF n = 0 THEN Parsed(acc, p)
    ELSE IF TxEnd(bs, p) < 0 THEN Failed
    ELSE ParseTxs(bs, TxEnd(bs, p), n - 1, Append(acc, TxAt(bs, p)))

\* the Block whose transactions parsed as txs, when the nonce follows them
BlockOf(bs, txs) ==
    IF ~txs.ok THEN Failed
    ELSE IF ~Has(bs, txs.next, NonceBytes) THEN Failed
    ELSE IF LEValue(bs, txs.next, NonceBytes) < 0 THEN Failed
    ELSE Parsed(Block(Slice(bs, 1, HashLen), LEValue(bs, HashLen + 1, 8), txs.val,
                      LEValue(bs, txs.next, NonceBytes)),
                txs.next + NonceBytes)

\* bincode::deserialize::<Block>(&buffer)
DeBlock(bs) ==
    IF ~Has(bs, 1, HashLen) \/ ~TimeOk(bs, HashLen + 1) THEN Failed
    ELSE IF CountAt(bs, HashLen + TimeSize + 1) < 0 THEN Failed
    ELSE IF CountAt(bs, HashLen + TimeSize + 1) * (TimeSize + 16) > Len(bs) THEN Failed
    ELSE BlockOf(bs, ParseTxs(bs, HashLen + TimeSize + 9,
                              CountAt(bs, HashLen + TimeSize + 1), << >>))

----------------------------------------------------------------------------
(* block.rs: the UTXO set, the mempool and the pending set *)

\* UTXOSet = HashMap<(Sha256Hash, u32), Output>: a function on its keys
EmptyUtxo == [k \in {} |-> Output(0, U32Zero)]

Remove(utxo, keys) == [k \in DOMAIN utxo \ keys |-> utxo[k]]

Insert(utxo, key, output) ==
    [k \in DOMAIN utxo \cup {key} |-> IF k = key THEN output ELSE utxo[k]]

InputKeys(tx) ==
    {<<tx.inputs[i].core.tx_id, tx.inputs[i].core.output_id>> : i \in 1..Len(tx.inputs)}

OutputKeys(tx) == {<<calculate_id(tx), i - 1>> : i \in 1..Len(tx.outputs)}

\* for (i, output) in tx.outputs.iter().enumerate() { utxo_set.insert(..) }
InsertOutputs(utxo, tx) ==
    LET new == OutputKeys(tx)
    IN  [k \in DOMAIN utxo \cup new |->
            IF k \in new THEN tx.outputs[k[2] + 1] ELSE utxo[k]]

\* Block::update_utxo_set, from transaction i on
RECURSIVE UpdateUtxoFrom(_, _, _)
UpdateUtxoFrom(b, i, utxo) ==
    IF i > Len(b.tx_list) THEN utxo
    ELSE UpdateUtxoFrom(b, i + 1,
            InsertOutputs(Remove(utxo, InputKeys(b.tx_list[i])), b.tx_list[i]))

update_utxo_set(b, utxo) == UpdateUtxoFrom(b, 1, utxo)

\* Block::update_mempool
update_mempool(b, pool) == pool \ {b.tx_list[i] : i \in 1..Len(b.tx_list)}

\* Block::rewind, from transaction i on: [utxo, pending]
RECURSIVE RewindFrom(_, _, _, _)
RewindFrom(b, i, utxo, utxos_to_add) ==
    IF i > Len(b.tx_list) THEN [utxo |-> utxo, pending |-> utxos_to_add]
    ELSE LET tx == b.tx_list[i]
         IN  RewindFrom(b, i + 1, Remove(utxo, OutputKeys(tx)),
                        (utxos_to_add \ OutputKeys(tx)) \cup InputKeys(tx))

rewind(b, utxo, utxos_to_add) == RewindFrom(b, 1, utxo, utxos_to_add)

\* the outputs of tx that are pending, moved into the UTXO set
TakePending(tx, utxo, utxos_to_add) ==
    LET hit == OutputKeys(tx) \cap utxos_to_add
    IN  [utxo    |-> [k \in DOMAIN utxo \cup hit |->
                        IF k \in hit THEN tx.outputs[k[2] + 1] ELSE utxo[k]],
         pending |-> utxos_to_add \ hit]

\* Block::add_pending_utxos_to_utxo_set, from transaction i on
RECURSIVE AddPendingFrom(_, _, _, _)
AddPendingFrom(b, i, utxo, utxos_to_add) ==
    IF i > Len(b.tx_list) THEN [utxo |-> utxo, pending |-> utxos_to_add]
    ELSE LET r == TakePending(b.tx_list[i], utxo, utxos_to_add)
         IN  AddPendingFrom(b, i + 1, r.utxo, r.pending)

add_pending_utxos_to_utxo_set(b, utxo, utxos_to_add) ==
    AddPendingFrom(b, 1, utxo, utxos_to_add)

----------------------------------------------------------------------------
(* block.rs: the chain log.  `f` is the file's bytes and `p` the cursor of *)
(* the handle, an offset from 0.  The BufReader the readers take and the   *)
(* File the writer takes are one open file: one cursor.  Lengths are       *)
(* written native-endian; the model is a little-endian machine.            *)

\* file.write(bytes) at the cursor: overwrites what is there, extends at the end
WriteAt(f, p, bytes) ==
    [i \in 1..(IF p + Len(bytes) > Len(f) THEN p + Len(bytes) ELSE Len(f)) |->
        IF i > p /\ i <= p + Len(bytes) THEN bytes[i - p]
        ELSE IF i <= Len(f) THEN f[i] ELSE 0]

Record(b) ==
    LET serialized_block == SerBlock(b)
    IN  LE(Len(serialized_block), LenBytes) \o serialized_block
        \o LE(Len(serialized_block), LenBytes)

\* Block::write_to_file: [file, pos]
write_to_file(b, f, p) ==
    [file |-> WriteAt(f, p, Record(b)), pos |-> p + Len(Record(b))]

ReadResult(kind, b, p) == [kind |-> kind, block |-> b, pos |-> p]

\* the end of a read: the deserialized buffer d unwrapped, the cursor at p
Unwrap(d, p) ==
    IF d.ok THEN ReadResult("Some", d.val, p) ELSE ReadResult("Panic", << >>, p)

\* from_file without the seek over the trailing length
FromFileSizedNoSkip(f, p, size) ==
    IF size < 0 \/ p + LenBytes + size > Len(f)
    THEN ReadResult("None", << >>, Len(f))
    ELSE Unwrap(DeBlock(Slice(f, p + LenBytes + 1, size)), p + LenBytes + size)

\* from_file_backwads without the seek back over the body after reading it
FromFileBackwardsNoSeekBack(f, p, size) ==
    IF size < 0 \/ p - 2 * LenBytes - size < 0
    THEN ReadResult("Panic", << >>, p)
    ELSE Unwrap(DeBlock(Slice(f, p - LenBytes - size + 1, size)), p - LenBytes)

\* Block::from_file once `size` is read: None when the file ends before the
\* body does (the failed read_exact has consumed what was left)
FromFileSized(f, p, size) ==
    IF size < 0 \/ p + LenBytes + size > Len(f)
    THEN ReadResult("None", << >>, Len(f))
    ELSE Unwrap(DeBlock(Slice(f, p + LenBytes + 1, size)), p + 2 * LenBytes + size)

\* Block::from_file: Some(block), None, or a panic of an unwrap
from_file(f, p) ==
    IF p + LenBytes > Len(f) THEN ReadResult("Panic", << >>, p)
    ELSE FromFileSized(f, p, LEValue(f, p + 1, LenBytes))

\* Block::from_file_backwads once `size` is read
FromFileBackwardsSized(f, p, size) ==
    IF size < 0 \/ p - 2 * LenBytes - size < 0
    THEN ReadResult("Panic", << >>, p)
    ELSE Unwrap(DeBlock(Slice(f, p - LenBytes - size + 1, size)), p - 2 * LenBytes - size)

\* Block::from_file_backwads
from_file_backwads(f, p) ==
    IF p - LenBytes < 0 THEN ReadResult("None", << >>, p)
    ELSE IF p > Len(f) THEN ReadResult("Panic", << >>, p)
    ELSE FromFileBackwardsSized(f, p, LEValue(f, p - LenBytes + 1, LenBytes))

PendingResult(kind, utxo, utxos_to_add, p) ==
    [kind |-> kind, utxo |-> utxo, pending |-> utxos_to_add, pos |-> p]

\* the loop of Block::update_all_pending_utxos
RECURSIVE PendingLoop(_, _, _, _, _)

\* one iteration, with the block r read backward and the pending outputs a
\* it resolved
PendingStep(f, utxo, utxos_to_add, bytes_rewinded, r) ==
    IF r.kind # "Some" THEN PendingResult("Panic", utxo, utxos_to_add, r.pos)
    ELSE PendingLoop(f, r.pos,
            add_pending_utxos_to_utxo_set(r.block, utxo, utxos_to_add).utxo,
            add_pending_utxos_to_utxo_set(r.block, utxo, utxos_to_add).pending,
            bytes_rewinded)

PendingLoop(f, p, utxo, utxos_to_add, bytes_rewinded) ==
    IF utxos_to_add = {} THEN PendingResult("Ok", utxo, utxos_to_add, p + bytes_rewinded)
    ELSE IF p - LenBytes < 0 \/ p > Len(f)
    THEN PendingResult("Panic", utxo, utxos_to_add, p)
    ELSE PendingStep(f, utxo, utxos_to_add,
                     bytes_rewinded + 8 + LEValue(f, p - LenBytes + 1, LenBytes),
                     from_file_backwads(f, p))

\* Block::update_all_pending_utxos
update_all_pending_utxos(f, p, utxo, utxos_to_add) ==
    PendingLoop(f, p, utxo, utxos_to_add, 0)

----------------------------------------------------------------------------
(* The node: GlobalState and the handlers of the transport contract.       *)

Op(name, arg, res, pre, run) ==
    [name |-> name, arg |-> arg, res |-> res, pre |-> pre, run |-> run]

NoOp == Op("none", << >>, << >>, << >>, << >>)

EmptyLog ==
    [blocks |-> << >>, clean |-> TRUE, writes |-> 0,
     last |-> [block |-> << >>, start |-> -1, end |-> -1]]

\* no connection under observation
NoConn == [stream |-> << >>, rest |-> << >>, errors |-> 0, res |-> "none"]

\* no StateWithFile under observation
NoStateFile ==
    [type |-> "none", state |-> << >>, file |-> << >>, pos |-> 0, open |-> FALSE,
     opens |-> 0, persisted |-> [set |-> FALSE, val |-> << >>]]

\* GlobalState::new on an empty state directory, with the difficulty file
\* holding a value the model can mine
Init ==
    /\ overflow_checks \in BOOLEAN
    /\ difficulty \in 0..MaxDifficulty
    /\ reward = N(DefaultReward)
    /\ block_height = 0
    /\ previous_block_hash = Zeros(HashLen)
    /\ utxo_set = EmptyUtxo
    /\ mempool = {}
    /\ file = << >>
    /\ pos = 0
    /\ blk = NewBlock(0)
    /\ op = NoOp
    /\ hist = << >>
    /\ log = EmptyLog
    /\ swf = NoStateFile
    /\ pending_set = {}
    /\ conn = NoConn

\* the transaction lists of the blocks that arrive
BlockBodies ==
    {<<TxCb10>>, <<TxCb11>>, <<TxSpend>>, <<TxSpend, TxCb11>>, <<TxCb11, TxSpend>>,
     <<TxSpend2, TxCb10>>, <<TxBadSig, TxCb11>>, <<TxHalf, TxHalf>>, <<TxWrap>>,
     <<TxTwoHalves, TxCb10>>}

\* the transactions that arrive for the mempool
ArrivingTxs == {TxSpend, TxBadSig, TxSpend2}

\* a candidate Transaction arrives: validated against the UTXO set and
\* admitted to the mempool when valid, dropped otherwise
ReceiveTransaction(tx) ==
    /\ mempool' = IF is_valid(tx, utxo_set).kind = "Ok" THEN mempool \cup {tx}
                  ELSE mempool
    /\ UNCHANGED <<conn, swf, pending_set, overflow_checks, difficulty, reward, block_height,
                   previous_block_hash, utxo_set, file, pos, blk, op, hist, log>>

\* a candidate Block on the current tip arrives: validated, and on success
\* appended to the chain log and applied; dropped otherwise
ReceiveBlock(txs, nonce) ==
    LET b == Block(previous_block_hash, block_height + 1, txs, nonce)
        r == is_valid_block(b, difficulty, reward, utxo_set)
        w == write_to_file(b, file, pos)
    IN  /\ block_height < MaxHeight
        /\ IF r = "Ok"
           THEN /\ op' = Op("is_valid_block", b, r, utxo_set, << >>)
                /\ file' = w.file
                /\ pos' = w.pos
                /\ utxo_set' = update_utxo_set(b, utxo_set)
                /\ mempool' = update_mempool(b, mempool)
                /\ previous_block_hash' = hash(b)
                /\ block_height' = block_height + 1
                /\ hist' = Append(hist, utxo_set)
           ELSE UNCHANGED <<conn, swf, pending_set, op, file, pos, utxo_set, mempool, previous_block_hash,
                            block_height, hist>>
        /\ UNCHANGED <<conn, swf, pending_set, overflow_checks, difficulty, reward, blk, log>>

\* the tip b, read backward from the chain log up to offset p, is undone:
\* u is its local undo and a the recovery of the outputs it spent; the
\* block is cut off the log
RewindBlock(b, a) ==
    /\ op' = Op("rewind", b, a.kind, hist[Len(hist)], << >>)
    /\ IF a.kind = "Ok"
       THEN /\ utxo_set' = a.utxo
            /\ pos' = a.pos
            /\ file' = SubSeq(file, 1, a.pos)
            /\ previous_block_hash' = b.previous_block
            /\ block_height' = block_height - 1
            /\ hist' = SubSeq(hist, 1, Len(hist) - 1)
       ELSE UNCHANGED <<conn, swf, pending_set, utxo_set, pos, file, previous_block_hash, block_height, hist>>
    /\ UNCHANGED <<conn, swf, pending_set, overflow_checks, difficulty, reward, mempool, blk, log>>

RewindRead(r, u) ==
    RewindBlock(r.block, update_all_pending_utxos(file, r.pos, u.utxo, u.pending))

RewindTip ==
    /\ block_height > 0
    /\ from_file_backwads(file, pos).kind = "Some"
    /\ RewindRead(from_file_backwads(file, pos),
                  rewind(from_file_backwads(file, pos).block, utxo_set, {}))

Next ==
    \/ \E tx \in ArrivingTxs : ReceiveTransaction(tx)
    \/ \E txs \in BlockBodies : ReceiveBlock(txs, 0)
    \/ RewindTip

Spec == Init /\ [][Next]_vars

----------------------------------------------------------------------------
(* Properties of the ledger (Spec).                                         *)

\* C1: a block valid against a UTXO set u is applied to u and then rewound
\* (local undo with an empty pending set, then recovery of the spent outputs
\* from the chain log that holds the preceding blocks): the UTXO set equals u.
C1_ApplyRewindRoundTrip ==
    (op.name = "rewind" /\ op.res = "Ok") => utxo_set = op.pre

\* C3: every (tx_id, output_id) referenced by an input of a transaction of an
\* admitted block is a key of the UTXO set the block is applied to.
C3_SpentInputsExisted ==
    op.name = "is_valid_block" =>
        \A i \in 1..Len(op.arg.tx_list) : InputKeys(op.arg.tx_list[i]) \subseteq DOMAIN op.pre

\* an admitted block that spends an output has been applied
C3_Witness ==
    /\ op.name = "is_valid_block"
    /\ \E i \in 1..Len(op.arg.tx_list) : InputKeys(op.arg.tx_list[i]) # {}
    /\ utxo_set = update_utxo_set(op.arg, op.pre)

----------------------------------------------------------------------------
(* Validation as a function of its inputs: the UTXO snapshot is one the    *)
(* node reaches by applying blocks, the transaction or block is any of the *)
(* model's.                                                                 *)

Utxo0 == EmptyUtxo
Utxo1 == update_utxo_set(Block(Zeros(HashLen), 1, <<TxCb10>>, 0), Utxo0)
Utxo2 == update_utxo_set(Block(Zeros(HashLen), 2, <<TxSpend, TxCb11>>, 0), Utxo1)
Utxo3 == update_utxo_set(Block(Zeros(HashLen), 3, <<TxSpend2, TxCb10>>, 0), Utxo2)
Utxo1b == update_utxo_set(Block(Zeros(HashLen), 2, <<TxCb11>>, 0), Utxo1)

Snapshots == {Utxo0, Utxo1, Utxo2, Utxo3, Utxo1b}

InitValidate ==
    /\ overflow_checks \in BOOLEAN
    /\ difficulty \in 0..MaxDifficulty
    /\ reward = N(DefaultReward)
    /\ block_height = 0
    /\ previous_block_hash = Zeros(HashLen)
    /\ utxo_set \in Snapshots
    /\ mempool = {}
    /\ file = << >>
    /\ pos = 0
    /\ blk = NewBlock(0)
    /\ op = NoOp
    /\ hist = << >>
    /\ log = EmptyLog
    /\ swf = NoStateFile
    /\ pending_set = {}
    /\ conn = NoConn

\* a validation that spends the inputs it has checked
ValidateTxSpending(tx) ==
    /\ op' = Op("is_valid", tx, is_valid(tx, utxo_set), utxo_set, << >>)
    /\ utxo_set' = Remove(utxo_set, InputKeys(tx))
    /\ UNCHANGED <<conn, swf, pending_set, overflow_checks, difficulty, reward, block_height,
                   previous_block_hash, mempool, file, pos, blk, hist, log>>

\* tx.is_valid(&utxo_set): the transaction and the set are shared references
ValidateTx(tx) ==
    /\ op' = Op("is_valid", tx, is_valid(tx, utxo_set), utxo_set, << >>)
    /\ UNCHANGED <<conn, swf, pending_set, overflow_checks, difficulty, reward, block_height,
                   previous_block_hash, utxo_set, mempool, file, pos, blk, hist, log>>

ValidateBlock(txs, nonce) ==
    /\ op' = Op("is_valid_block", Block(previous_block_hash, 1, txs, nonce),
                is_valid_block(Block(previous_block_hash, 1, txs, nonce),
                               difficulty, reward, utxo_set),
                utxo_set, << >>)
    /\ UNCHANGED <<conn, swf, pending_set, overflow_checks, difficulty, reward, block_height,
                   previous_block_hash, utxo_set, mempool, file, pos, blk, hist, log>>

NextValidate ==
    \/ \E tx \in TxUniverse : ValidateTx(tx)
    \/ \E txs \in BlockBodies, nonce \in 0..MaxNonce : ValidateBlock(txs, nonce)

SpecValidate == InitValidate /\ [][NextValidate]_vars

----------------------------------------------------------------------------
(* Exact (unbounded) sums of u32 amounts, as three 16-bit limbs with the   *)
(* limb c counting multiples of 2^32.                                       *)

Wide(a) == [c |-> 0, hi |-> a.hi, lo |-> a.lo]

WideAdd(w, a) ==
    LET l == w.lo + a.lo
        h == w.hi + a.hi + (l \div Limb)
    IN  [c |-> w.c + (h \div Limb), hi |-> h % Limb, lo |-> l % Limb]

WideLe(x, y) ==
    \/ x.c < y.c
    \/ x.c = y.c /\ x.hi < y.hi
    \/ x.c = y.c /\ x.hi = y.hi /\ x.lo <= y.lo

\* x - y for y <= x
WideSub(x, y) ==
    LET bl == IF x.lo < y.lo THEN 1 ELSE 0
        bh == IF x.hi - bl < y.hi THEN 1 ELSE 0
    IN  [c  |-> x.c - y.c - bh,
         hi |-> (x.hi - bl - y.hi + Limb) % Limb,
         lo |-> (x.lo - y.lo + Limb) % Limb]

RECURSIVE SumOutputs(_, _)
SumOutputs(outs, i) ==
    IF i = 0 THEN Wide(U32Zero) ELSE WideAdd(SumOutputs(outs, i - 1), outs[i].amount)

RECURSIVE SumInputs(_, _, _)
SumInputs(tx, utxo, i) ==
    IF i = 0 THEN Wide(U32Zero)
    ELSE WideAdd(SumInputs(tx, utxo, i - 1),
                 utxo[<<tx.inputs[i].core.tx_id, tx.inputs[i].core.output_id>>].amount)

InputExists(tx, utxo, i) ==
    <<tx.inputs[i].core.tx_id, tx.inputs[i].core.output_id>> \in DOMAIN utxo

InputVerifies(tx, utxo, i) ==
    /\ InputExists(tx, utxo, i)
    /\ verify(tx.inputs[i],
              utxo[<<tx.inputs[i].core.tx_id, tx.inputs[i].core.output_id>>].to_pubkey)

\* the fee or the excess of the outputs, in exact arithmetic
ExactBalance(ins, outs) ==
    IF WideLe(outs, ins) THEN [kind |-> "Ok", w |-> WideSub(ins, outs)]
    ELSE [kind |-> "InvalidOutputAmount", w |-> WideSub(outs, ins)]

\* C4: for a transaction whose inputs all exist in the snapshot and verify,
\* is_valid returns Ok(I - O) when O <= I and InvalidOutputAmount(O - I) when
\* O > I, I and O being the exact sums of the referenced and of the created
\* amounts.
C4_FeeIsExactDifference ==
    (op.name = "is_valid" /\ \A i \in 1..Len(op.arg.inputs) :
                                InputVerifies(op.arg, utxo_set, i))
    => LET x == ExactBalance(SumInputs(op.arg, utxo_set, Len(op.arg.inputs)),
                             SumOutputs(op.arg.outputs, Len(op.arg.outputs)))
       IN  op.res.kind = x.kind /\ Wide(op.res.val) = x.w

\* the lowest index of an input that is missing or does not verify
FirstBadInput(tx, utxo) ==
    LET bad == {i \in 1..Len(tx.inputs) : ~InputVerifies(tx, utxo, i)}
    IN  IF bad = {} THEN 0 ELSE CHOOSE i \in bad : \A j \in bad : i <= j

\* C5: is_valid reports the lowest-indexed input that is missing
\* (InputDoesNotExist) or wrongly signed (InvalidSignature), before any
\* InvalidOutputAmount; a spent input 0 gives InputDoesNotExist(0).
C5_FirstBadInputIsReported ==
    (op.name = "is_valid" /\ FirstBadInput(op.arg, utxo_set) > 0)
    => LET i == FirstBadInput(op.arg, utxo_set)
       IN  op.res = TxResult(IF InputExists(op.arg, utxo_set, i)
                             THEN "InvalidSignature" ELSE "InputDoesNotExist",
                             N(i - 1))

\* the proof-of-work test as the specification words it
HashMeets(h, d) ==
    /\ \A i \in 1..(d \div 8) : h[i] = 0
    /\ d % 8 > 0 => h[(d \div 8) + 1] % (2 ^ (d % 8)) = 0

RECURSIVE SumKind(_, _, _, _)
SumKind(b, utxo, kind, i) ==
    IF i = 0 THEN Wide(U32Zero)
    ELSE IF is_valid(b.tx_list[i], utxo).kind = kind
         THEN WideAdd(SumKind(b, utxo, kind, i - 1), is_valid(b.tx_list[i], utxo).val)
         ELSE SumKind(b, utxo, kind, i - 1)

BlockDecision(b, d, rw, utxo) ==
    IF ~HashMeets(hash(b), d) THEN "InvalidHash"
    ELSE IF \E i \in 1..Len(b.tx_list) :
                is_valid(b.tx_list[i], utxo).kind \in {"InputDoesNotExist", "InvalidSignature"}
    THEN "InvalidTransaction"
    ELSE IF WideAdd(SumKind(b, utxo, "Ok", Len(b.tx_list)), rw)
              # SumKind(b, utxo, "InvalidOutputAmount", Len(b.tx_list))
    THEN "InvalidMinerReward"
    ELSE "Ok"

\* C6: is_valid_block returns InvalidHash when the proof of work fails, else
\* InvalidTransaction when a transaction has a missing or wrongly signed
\* input, else InvalidMinerReward when reward + fees differs from the sum of
\* the InvalidOutputAmount deltas, else Ok.
C6_BlockDecision ==
    op.name = "is_valid_block" => op.res = BlockDecision(op.arg, difficulty, reward, utxo_set)

----------------------------------------------------------------------------
(* Mining: a block under construction is extended and mined, repeatedly.   *)

InitMine ==
    /\ overflow_checks \in BOOLEAN
    /\ difficulty = 0
    /\ reward = N(DefaultReward)
    /\ block_height = 0
    /\ previous_block_hash = Zeros(HashLen)
    /\ utxo_set = EmptyUtxo
    /\ mempool = {}
    /\ file = << >>
    /\ pos = 0
    /\ blk = NewBlock(0)
    /\ op = NoOp
    /\ hist = << >>
    /\ log = EmptyLog
    /\ swf = NoStateFile
    /\ pending_set = {}
    /\ conn = NoConn

MineTxs == {TxCb10, TxCb11, TxSpend}

\* Block::add on the block under construction
MineAdd(tx) ==
    /\ Len(blk.tx_list) < MaxBlockTxs
    /\ blk' = add(blk, tx)
    /\ op' = Op("add", tx, << >>, blk, << >>)
    /\ UNCHANGED <<conn, swf, pending_set, overflow_checks, difficulty, reward, block_height,
                   previous_block_hash, utxo_set, mempool, file, pos, hist, log>>

\* Block::mine returns, having stored the nonce n
MineStore(d, n) ==
    /\ n >= 0
    /\ blk' = [blk EXCEPT !.nonce = n]
    /\ op' = Op("mine", d, n, blk, << >>)
    /\ UNCHANGED <<conn, swf, pending_set, overflow_checks, difficulty, reward, block_height,
                   previous_block_hash, utxo_set, mempool, file, pos, hist, log>>

MineBlock(d) == MineStore(d, mine(blk, d))

NextMine ==
    \/ \E tx \in MineTxs : MineAdd(tx)
    \/ \E d \in 0..MaxMineDifficulty : MineBlock(d)

SpecMine == InitMine /\ [][NextMine]_vars

\* C2: whatever transaction list and nonce the block holds when mine(d) is
\* called, once mine has returned the block's hash passes the
\* leading-zero-bit test for d, and is_valid_block does not return InvalidHash.
C2_MinedBlockMeetsDifficulty ==
    op.name = "mine" =>
        /\ are_first_n_bits_equal(Zeros(HashLen), hash(blk), op.arg)
        /\ is_valid_block(blk, op.arg, reward, utxo_set) # "InvalidHash"

----------------------------------------------------------------------------
(* The chain log: one file handle with one cursor, written by              *)
(* write_to_file, scanned by from_file and from_file_backwads, and         *)
(* reopened at a restart.  log is history: the blocks written, whether     *)
(* every write so far happened at end of file, and the last write.         *)

ChainBlocks ==
    {NewBlock(0),
     Block(Zeros(HashLen), 1, <<TxCb10>>, 0),
     Block(Sha256(<<1>>), 2, <<TxSpend>>, 1)}

InitChain ==
    /\ overflow_checks = FALSE
    /\ difficulty = 0
    /\ reward = N(DefaultReward)
    /\ block_height = 0
    /\ previous_block_hash = Zeros(HashLen)
    /\ utxo_set = EmptyUtxo
    /\ mempool = {}
    /\ file = << >>
    /\ pos = 0
    /\ blk = NewBlock(0)
    /\ op = NoOp
    /\ hist = << >>
    /\ log = EmptyLog
    /\ swf = NoStateFile
    /\ pending_set = {}
    /\ conn = NoConn

\* a panic ended the process: only a restart follows
Crashed == op.name \in {"from_file", "from_file_backwads"} /\ op.res.kind = "Panic"

\* write_to_file(b) at the cursor
ChainWrite(b) ==
    /\ ~Crashed
    /\ log.writes < MaxRecords
    /\ file' = write_to_file(b, file, pos).file
    /\ pos' = write_to_file(b, file, pos).pos
    /\ op' = Op("write_to_file", b, << >>, [file |-> file, pos |-> pos], << >>)
    /\ log' = [blocks |-> Append(log.blocks, b),
               clean  |-> log.clean /\ pos = Len(file),
               writes |-> log.writes + 1,
               last   |-> [block |-> b, start |-> pos,
                           end |-> write_to_file(b, file, pos).pos]]
    /\ UNCHANGED <<conn, swf, pending_set, overflow_checks, difficulty, reward, block_height,
                   previous_block_hash, utxo_set, mempool, blk, hist>>

\* a read r by the function name: op keeps the cursor before the call, the
\* result, and the offset and the blocks of the scan the call continues
ChainRead(name, r) ==
    /\ ~Crashed
    /\ pos' = r.pos
    /\ op' = IF op.name = name /\ op.res.kind = "Some"
             THEN Op(name, pos, r, op.pre,
                     IF r.kind = "Some" THEN Append(op.run, r.block) ELSE op.run)
             ELSE Op(name, pos, r, pos,
                     IF r.kind = "Some" THEN <<r.block>> ELSE << >>)
    /\ UNCHANGED <<conn, swf, pending_set, overflow_checks, difficulty, reward, block_height,
                   previous_block_hash, utxo_set, mempool, file, blk, hist, log>>

ChainReadForward == ChainRead("from_file", from_file(file, pos))

ChainReadBackward == ChainRead("from_file_backwads", from_file_backwads(file, pos))

\* update_all_pending_utxos returns a, having looked for a spent output
ChainRecovered(a) ==
    /\ ~Crashed
    /\ a.kind = "Ok"
    /\ pos' = a.pos
    /\ utxo_set' = a.utxo
    /\ op' = Op("update_all_pending_utxos", pos, a.kind, utxo_set, << >>)
    /\ UNCHANGED <<conn, swf, pending_set, overflow_checks, difficulty, reward, block_height,
                   previous_block_hash, mempool, file, blk, hist, log>>

ChainRecover ==
    ChainRecovered(update_all_pending_utxos(file, pos, utxo_set, {<<IdCb10, 0>>}))

\* the node restarts: GlobalState::new opens the chain file again
ChainRestart ==
    /\ pos' = 0
    /\ op' = Op("new", << >>, << >>, << >>, << >>)
    /\ UNCHANGED <<conn, swf, pending_set, overflow_checks, difficulty, reward, block_height,
                   previous_block_hash, utxo_set, mempool, file, blk, hist, log>>

NextChain ==
    \/ \E b \in ChainBlocks : ChainWrite(b)
    \/ ChainRestart
    \/ ChainReadForward
    \/ ChainReadBackward
    \/ ChainRecover

SpecChain == InitChain /\ [][NextChain]_vars

\* C7: write_to_file changes no byte written before and places the new
\* record immediately after the last existing record (at end of file).
C7_ChainFileIsAppendOnly ==
    op.name = "write_to_file" =>
        /\ op.pre.pos = Len(op.pre.file)
        /\ Len(file) >= Len(op.pre.file)
        /\ SubSeq(file, 1, Len(op.pre.file)) = op.pre.file

\* the offset at which the first n records of the written blocks end
RECURSIVE RecordsEnd(_, _)
RecordsEnd(blocks, n) ==
    IF n = 0 THEN 0 ELSE RecordsEnd(blocks, n - 1) + Len(Record(blocks[n]))

Reverse(seq) == [i \in 1..Len(seq) |-> seq[Len(seq) + 1 - i]]

LastBlocks(blocks, n) == SubSeq(blocks, Len(blocks) - n + 1, Len(blocks))

\* C8: blocks b1..bn are written one after the other to an initially empty
\* file: every record's leading length equals its trailing length, from_file
\* calls from offset 0 return b1, b2, .. in order, and from_file_backwads
\* calls from end of file return bn, .., b1 in order.
C8_ScanSymmetry ==
    log.clean =>
        /\ \A i \in 1..Len(log.blocks) :
              /\ RecordsEnd(log.blocks, i) <= Len(file)
              /\ LEValue(file, RecordsEnd(log.blocks, i - 1) + 1, LenBytes)
                    = LEValue(file, RecordsEnd(log.blocks, i) - LenBytes + 1, LenBytes)
              /\ LEValue(file, RecordsEnd(log.blocks, i - 1) + 1, LenBytes)
                    = Len(SerBlock(log.blocks[i]))
        /\ (op.name = "from_file" /\ op.pre = 0 /\ op.arg < Len(file)) =>
              /\ op.res.kind = "Some"
              /\ op.run = SubSeq(log.blocks, 1, Len(op.run))
              /\ pos = RecordsEnd(log.blocks, Len(op.run))
        /\ (op.name = "from_file_backwads" /\ op.pre = Len(file) /\ op.arg > 0) =>
              /\ op.res.kind = "Some"
              /\ Len(op.run) <= Len(log.blocks)
              /\ op.run = Reverse(LastBlocks(log.blocks, Len(op.run)))
              /\ pos = RecordsEnd(log.blocks, Len(log.blocks) - Len(op.run))

\* two or more blocks were written in a row and a backward scan from end of
\* file has reached the start
C8_Witness ==
    /\ log.clean
    /\ Len(log.blocks) >= 2
    /\ op.name = "from_file_backwads"
    /\ op.pre = Len(file)
    /\ Len(op.run) = Len(log.blocks)
    /\ pos = 0

\* C9: from_file_backwads called with the cursor right after the record
\* write_to_file wrote last returns the written block and leaves the cursor
\* before that record's leading length, a further call returns the record
\* written before it, and a call at offset 0 returns None and leaves the
\* cursor at 0.
C9_AppendReadBackward ==
    /\ (op.name = "from_file_backwads" /\ op.arg = log.last.end) =>
          /\ op.res.kind = "Some"
          /\ op.res.block = log.last.block
          /\ pos = log.last.start
    /\ (op.name = "from_file_backwads" /\ log.clean /\ op.pre = log.last.end
            /\ op.arg = log.last.start /\ op.arg > 0) =>
          /\ op.res.kind = "Some"
          /\ op.res.block = log.blocks[Len(log.blocks) - 1]
    /\ (op.name = "from_file_backwads" /\ op.arg = 0) =>
          /\ op.res.kind = "None"
          /\ pos = 0

\* the record written last, which has a record before it, was read backward
C9_Witness ==
    /\ op.name = "from_file_backwads"
    /\ op.arg = log.last.end
    /\ log.last.start > 0
    /\ op.res.kind = "Some"
    /\ pos = log.last.start

\* C10: from_file called with the cursor at end of file (after the last
\* complete record, or in an empty file) returns None.
C10_ForwardScanEndsWithNone ==
    (op.name = "from_file" /\ op.arg = Len(file)) => op.res.kind = "None"

----------------------------------------------------------------------------
(* global_state.rs: StateWithFile<T>, for the value types of GlobalState.  *)
(* A HashMap or HashSet is serialized in its iteration order, which the    *)
(* program does not fix: `order` lists the keys or elements in that order. *)

SwfTypes == {"u32", "hash", "utxo", "mempool"}

\* the sequences that list every element of S once
RECURSIVE Orderings(_)
Orderings(S) ==
    IF S = {} THEN {<< >>}
    ELSE UNION {{<<x>> \o o : o \in Orderings(S \ {x})} : x \in S}

SwfOrders(type, v) ==
    IF type = "utxo" THEN Orderings(DOMAIN v)
    ELSE IF type = "mempool" THEN Orderings(v)
    ELSE {<< >>}

UtxoEntrySize == HashLen + 4 + OutputSize

RECURSIVE SerUtxoFrom(_, _, _)
SerUtxoFrom(u, order, i) ==
    IF i > Len(order) THEN << >>
    ELSE order[i][1] \o LE(order[i][2], 4) \o SerOutput(u[order[i]])
         \o SerUtxoFrom(u, order, i + 1)

\* bincode::serialize(&state)
SerState(type, v, order) ==
    CASE type = "u32" -> U32Bytes(v)
      [] type = "hash" -> v
      [] type = "utxo" -> LE(Len(order), 8) \o SerUtxoFrom(v, order, 1)
      [] type = "mempool" -> LE(Len(order), 8) \o SerTxs(order, 1)

\* the outcome of bincode::deserialize_from(&mut file): the value, and the
\* cursor it leaves (a read that meets end of file has consumed the file)
Read(ok, val, p) == [ok |-> ok, val |-> val, pos |-> p]

UtxoKeyAt(bs, i) ==
    <<Slice(bs, 9 + (i - 1) * UtxoEntrySize, HashLen),
      LEValue(bs, 9 + (i - 1) * UtxoEntrySize + HashLen, 4)>>

\* the map of n entries: a later entry replaces an earlier one of the same key
UtxoOf(bs, n) ==
    [k \in {UtxoKeyAt(bs, i) : i \in 1..n} |->
        OutputAt(bs, 9 + ((CHOOSE i \in 1..n :
                              /\ UtxoKeyAt(bs, i) = k
                              /\ \A j \in (i + 1)..n : UtxoKeyAt(bs, j) # k) - 1)
                            * UtxoEntrySize + HashLen + 4)]

DeUtxo(bs, n) ==
    IF n < 0 \/ 8 + n * UtxoEntrySize > Len(bs) THEN Read(FALSE, << >>, Len(bs))
    ELSE Read(TRUE, UtxoOf(bs, n), 8 + n * UtxoEntrySize)

DeMempoolOf(bs, txs) ==
    IF ~txs.ok THEN Read(FALSE, << >>, Len(bs))
    ELSE Read(TRUE, {txs.val[i] : i \in 1..Len(txs.val)}, txs.next - 1)

DeMempool(bs, n) ==
    IF n < 0 \/ 8 + n * (TimeSize + 16) > Len(bs) THEN Read(FALSE, << >>, Len(bs))
    ELSE DeMempoolOf(bs, ParseTxs(bs, 9, n, << >>))

DeState(type, bs) ==
    CASE type = "u32" ->
            IF Len(bs) >= 4 THEN Read(TRUE, U32FromBytes(bs, 1), 4)
            ELSE Read(FALSE, << >>, Len(bs))
      [] type = "hash" ->
            IF Len(bs) >= HashLen THEN Read(TRUE, Slice(bs, 1, HashLen), HashLen)
            ELSE Read(FALSE, << >>, Len(bs))
      [] type = "utxo" ->
            IF ~Has(bs, 1, 8) THEN Read(FALSE, << >>, Len(bs))
            ELSE DeUtxo(bs, CountAt(bs, 1))
      [] type = "mempool" ->
            IF ~Has(bs, 1, 8) THEN Read(FALSE, << >>, Len(bs))
            ELSE DeMempool(bs, CountAt(bs, 1))

\* StateWithFile::new once the file is read as d: [state, file, pos]
NewFrom(type, f, state, order, d) ==
    IF d.ok THEN [state |-> d.val, file |-> f, pos |-> d.pos]
    ELSE [state |-> state,
          file  |-> WriteAt(f, d.pos, SerState(type, state, order)),
          pos   |-> d.pos + Len(SerState(type, state, order))]

\* StateWithFile::new
new(type, f, state, order) == NewFrom(type, f, state, order, DeState(type, f))

\* StateWithFile::update without set_len(0)
updateNoSetLen(type, state, f, order) ==
    [file |-> WriteAt(f, 0, SerState(type, state, order)),
     pos  |-> Len(SerState(type, state, order))]

\* StateWithFile::update: [file, pos]
update(type, state, f, order) ==
    [file |-> WriteAt(SubSeq(f, 1, 0), 0, SerState(type, state, order)),
     pos  |-> Len(SerState(type, state, order))]

SwfValues(type) ==
    CASE type = "u32" -> {U32Zero, N(DefaultReward), U32Max}
      [] type = "hash" -> {Zeros(HashLen), IdCb10}
      [] type = "utxo" -> {Utxo0, Utxo1, Utxo2}
      [] type = "mempool" -> {{}, {TxSpend}, {TxSpend, TxSpend2}}

SwfSerializations(type) ==
    {SerState(type, v, order) : <<v, order>> \in
        {<<v, order>> \in SwfValues(type) \X UNION {SwfOrders(type, w) : w \in SwfValues(type)} :
            order \in SwfOrders(type, v)}}

\* the backing file before the node starts: absent or empty, a persisted
\* value, or the first half of one (a write the previous run did not finish)
InitialFiles(type) ==
    {<< >>} \cup SwfSerializations(type)
    \cup {SubSeq(bs, 1, Len(bs) \div 2) : bs \in SwfSerializations(type)}

InitState ==
    /\ overflow_checks = FALSE
    /\ difficulty = 0
    /\ reward = N(DefaultReward)
    /\ block_height = 0
    /\ previous_block_hash = Zeros(HashLen)
    /\ utxo_set = EmptyUtxo
    /\ mempool = {}
    /\ file = << >>
    /\ pos = 0
    /\ blk = NewBlock(0)
    /\ op = NoOp
    /\ hist = << >>
    /\ log = EmptyLog
    /\ pending_set = {}
    /\ conn = NoConn
    /\ \E type \in SwfTypes : \E f \in InitialFiles(type) :
          swf = [NoStateFile EXCEPT !.type = type, !.file = f]

\* the process (re)starts: StateWithFile::new(path, default) returns r
SwfOpened(default, r) ==
    /\ swf.opens < MaxOpens
    /\ swf' = [swf EXCEPT !.state = r.state, !.file = r.file, !.pos = r.pos,
                          !.open = TRUE, !.opens = @ + 1]
    /\ op' = Op("new", default, DeState(swf.type, swf.file).ok, swf.file, << >>)
    /\ UNCHANGED <<conn, overflow_checks, difficulty, reward, block_height, previous_block_hash,
                   utxo_set, mempool, file, pos, blk, hist, log, pending_set>>

SwfNew(default, order) == SwfOpened(default, new(swf.type, swf.file, default, order))

\* update() has left w: the value v is persisted
SwfWritten(name, v, w) ==
    /\ swf.open
    /\ swf' = [swf EXCEPT !.state = v, !.file = w.file, !.pos = w.pos,
                          !.persisted = [set |-> TRUE, val |-> v]]
    /\ op' = Op(name, v, << >>, swf.file, << >>)
    /\ UNCHANGED <<conn, overflow_checks, difficulty, reward, block_height, previous_block_hash,
                   utxo_set, mempool, file, pos, blk, hist, log, pending_set>>

\* StateWithFile::set_state(new_state)
SwfSetState(new_state, order) ==
    SwfWritten("set_state", new_state, update(swf.type, new_state, swf.file, order))

\* StateWithFile::update()
SwfUpdate(order) ==
    SwfWritten("update", swf.state, update(swf.type, swf.state, swf.file, order))

\* DerefMut: the value is changed in memory only
SwfDerefMut(v) ==
    /\ swf.open
    /\ v # swf.state
    /\ swf' = [swf EXCEPT !.state = v]
    /\ op' = Op("deref_mut", v, << >>, swf.file, << >>)
    /\ UNCHANGED <<conn, overflow_checks, difficulty, reward, block_height, previous_block_hash,
                   utxo_set, mempool, file, pos, blk, hist, log, pending_set>>

NextState ==
    \/ \E v \in SwfValues(swf.type) : \E order \in SwfOrders(swf.type, v) : SwfNew(v, order)
    \/ \E v \in SwfValues(swf.type) : \E order \in SwfOrders(swf.type, v) :
          SwfSetState(v, order)
    \/ swf.open /\ \E order \in SwfOrders(swf.type, swf.state) : SwfUpdate(order)
    \/ \E v \in SwfValues(swf.type) : SwfDerefMut(v)

SpecState == InitState /\ [][NextState]_vars

\* the backing file holds exactly a serialization of the value v
HoldsExactly(type, f, v) == \E order \in SwfOrders(type, v) : f = SerState(type, v, order)

\* C11: after set_state or update the backing file holds exactly the
\* serialization of the in-memory value, and a StateWithFile constructed on
\* a file that set_state or update wrote holds the value persisted last,
\* whatever default it is given.
C11_DurableStateResumes ==
    /\ op.name \in {"set_state", "update"} =>
          /\ HoldsExactly(swf.type, swf.file, swf.state)
          /\ DeState(swf.type, swf.file).ok
          /\ DeState(swf.type, swf.file).val = swf.state
    /\ (op.name = "new" /\ swf.persisted.set) =>
          /\ swf.state = swf.persisted.val
          /\ HoldsExactly(swf.type, swf.file, swf.state)

\* a value shorter than the one persisted before it was persisted, and the
\* node restarted with another default
C11_Witness ==
    /\ op.name = "new"
    /\ swf.persisted.set
    /\ op.arg # swf.persisted.val
    /\ swf.type \in {"utxo", "mempool"}
    /\ Len(swf.file) > 8
    /\ swf.state = swf.persisted.val

\* C12: when the backing file does not deserialize, new leaves the default
\* in memory and the serialized default in the file, so that a second
\* construction yields the default.
C12_DefaultOnUnreadableFile ==
    (op.name = "new" /\ ~op.res) =>
        /\ swf.state = op.arg
        /\ HoldsExactly(swf.type, swf.file, op.arg)
        /\ DeState(swf.type, swf.file).ok
        /\ DeState(swf.type, swf.file).val = op.arg

-----------------------------------------------------------------------------
(* block.rs: Block::from_mempool and Block::remove_lowest_fee_transaction   *)

\* the number of transactions from_mempool fills a block with
BlockCapacity == 5

U32Lt(a, b) == ~U32Le(b, a)

\* Option<u32>
None == [some |-> FALSE, val |-> U32Zero]
Some(v) == [some |-> TRUE, val |-> v]

\* Vec::remove(i), i counted from 0
RemoveAt(txs, i) == SubSeq(txs, 1, i) \o SubSeq(txs, i + 2, Len(txs))

\* the loop of remove_lowest_fee_transaction from the i-th transaction on;
\* r is tx.is_valid(utxo_set) of that transaction, unwrapped by the code
RECURSIVE LowestFeeLoop(_, _, _, _, _, _)
LowestFeeStep(txs, utxo, i, lowest_fee_id, lowest_fee, second_lowest_fee, r) ==
    IF r.kind # "Ok" THEN [kind |-> "Panic", id |-> None, second |-> None]
    ELSE IF ~lowest_fee_id.some
    THEN LowestFeeLoop(txs, utxo, i + 1, Some(N(i - 1)), Some(r.val), second_lowest_fee)
    ELSE IF U32Lt(r.val, lowest_fee.val)
    THEN LowestFeeLoop(txs, utxo, i + 1, Some(N(i - 1)), Some(r.val), lowest_fee)
    ELSE LowestFeeLoop(txs, utxo, i + 1, lowest_fee_id, lowest_fee, second_lowest_fee)

LowestFeeLoop(txs, utxo, i, lowest_fee_id, lowest_fee, second_lowest_fee) ==
    IF i > Len(txs)
    THEN [kind |-> "Ok", id |-> lowest_fee_id, second |-> second_lowest_fee]
    ELSE LowestFeeStep(txs, utxo, i, lowest_fee_id, lowest_fee, second_lowest_fee,
                       is_valid(txs[i], utxo))

RemoveLowest(txs, l) ==
    IF l.kind = "Panic" THEN [kind |-> "Panic", tx_list |-> txs, val |-> None]
    ELSE [kind |-> "Ok",
          tx_list |-> IF l.id.some THEN RemoveAt(txs, l.id.val.lo) ELSE txs,
          val |-> l.second]

\* Block::remove_lowest_fee_transaction: the list left and the Option returned
remove_lowest_fee_transaction(txs, utxo) ==
    RemoveLowest(txs, LowestFeeLoop(txs, utxo, 1, None, None, None))

HasRoomOffByOne(tx_list) == Len(tx_list) <= BlockCapacity

\* block.tx_list.len() < 5
HasRoom(tx_list) == Len(tx_list) < BlockCapacity

\* if fee < lowest_fee { lowest_fee = fee }
LowerFee(fee, lowest_fee) == IF U32Lt(fee, lowest_fee) THEN fee ELSE lowest_fee

\* the loop of from_mempool over the mempool in the iteration order `order`,
\* from its i-th transaction on; steps collects the candidate list after
\* every change of it
RECURSIVE FromMempoolLoop(_, _, _, _, _, _)
FromMempoolEvict(order, utxo, i, steps, fee, rem) ==
    IF rem.kind = "Panic" THEN [kind |-> "Panic", tx_list |-> rem.tx_list, steps |-> steps]
    ELSE IF ~rem.val.some
    THEN [kind |-> "Panic", tx_list |-> rem.tx_list, steps |-> Append(steps, rem.tx_list)]
    ELSE FromMempoolLoop(order, utxo, i + 1, Append(rem.tx_list, order[i]),
                         LowerFee(fee, rem.val.val),
                         steps \o <<rem.tx_list, Append(rem.tx_list, order[i])>>)

FromMempoolStep(order, utxo, i, tx_list, lowest_fee, steps, r) ==
    IF r.kind # "Ok" THEN [kind |-> "Panic", tx_list |-> tx_list, steps |-> steps]
    ELSE IF HasRoom(tx_list)
    THEN FromMempoolLoop(order, utxo, i + 1, Append(tx_list, order[i]),
                         LowerFee(r.val, lowest_fee), Append(steps, Append(tx_list, order[i])))
    ELSE IF U32Lt(lowest_fee, r.val)
    THEN FromMempoolEvict(order, utxo, i, steps, r.val,
                          remove_lowest_fee_transaction(tx_list, utxo))
    ELSE FromMempoolLoop(order, utxo, i + 1, tx_list, lowest_fee, steps)

FromMempoolLoop(order, utxo, i, tx_list, lowest_fee, steps) ==
    IF i > Len(order) THEN [kind |-> "Ok", tx_list |-> tx_list, steps |-> steps]
    ELSE FromMempoolStep(order, utxo, i, tx_list, lowest_fee, steps,
                         is_valid(order[i], utxo))

\* Block::from_mempool, the HashSet iterated in the order `order`
from_mempool(order, utxo) == FromMempoolLoop(order, utxo, 1, << >>, U32Max, << >>)

\* a transaction spending the first coinbase with fee Fee(i)
Fee(i) == (i % 4) + 1
FeeTx(i) == Transaction(20 + i, <<sign(IdCb10, 0, K1)>>,
                        <<Output(K2, N(DefaultReward - Fee(i)))>>)

\* mempools: the first n fee transactions, alone or with a transaction that
\* spends an output of TxSpend
Mempools ==
    {{FeeTx(i) : i \in 1..n} : n \in 0..MaxMempool}
    \cup {{FeeTx(i) : i \in 1..n} \cup {TxSpend2} : n \in 0..2}

InitMempool ==
    /\ overflow_checks = FALSE
    /\ difficulty = 0
    /\ reward = N(DefaultReward)
    /\ block_height = 0
    /\ previous_block_hash = Zeros(HashLen)
    /\ utxo_set \in {Utxo1, Utxo2}
    /\ mempool \in Mempools
    /\ file = << >>
    /\ pos = 0
    /\ blk = NewBlock(0)
    /\ op = NoOp
    /\ hist = << >>
    /\ log = EmptyLog
    /\ swf = NoStateFile
    /\ pending_set = {}
    /\ conn = NoConn

\* the miner builds a candidate: Block::from_mempool(&mempool, &utxo_set)
BuildBlock(order, r) ==
    /\ op.name # "from_mempool"
    /\ op' = Op("from_mempool", order, r, utxo_set, << >>)
    /\ blk' = [NewBlock(0) EXCEPT !.tx_list = r.tx_list]
    /\ UNCHANGED <<conn, swf, pending_set, overflow_checks, difficulty, reward, block_height,
                   previous_block_hash, utxo_set, mempool, file, pos, hist, log>>

FromMempool(order) == BuildBlock(order, from_mempool(order, utxo_set))

\* the candidate was mined: block.update_mempool(&mut mempool)
UpdateMempool ==
    /\ op.name = "from_mempool"
    /\ op.res.kind = "Ok"
    /\ mempool' = update_mempool(blk, mempool)
    /\ op' = Op("update_mempool", blk, << >>, utxo_set, << >>)
    /\ UNCHANGED <<conn, swf, pending_set, overflow_checks, difficulty, reward, block_height,
                   previous_block_hash, utxo_set, file, pos, blk, hist, log>>

NextMempool ==
    \/ op.name # "from_mempool" /\ \E order \in Orderings(mempool) : FromMempool(order)
    \/ UpdateMempool

SpecMempool == InitMempool /\ [][NextMempool]_vars

Members(txs) == {txs[i] : i \in 1..Len(txs)}

\* C13: from_mempool returns a block for every mempool and snapshot, every
\* transaction of the block is valid against the snapshot, and every valid
\* mempool transaction is in the block as long as the block has room: an
\* invalid entry is left out without stopping the construction.
C13_InvalidEntriesSkipped ==
    op.name = "from_mempool" =>
        /\ op.res.kind = "Ok"
        /\ \A tx \in Members(op.res.tx_list) : is_valid(tx, utxo_set).kind = "Ok"
        /\ \/ Len(op.res.tx_list) = BlockCapacity
           \/ \A tx \in mempool :
                 is_valid(tx, utxo_set).kind = "Ok" => tx \in Members(op.res.tx_list)

AllValid == \A tx \in mempool : is_valid(tx, utxo_set).kind = "Ok"

\* C14: for a mempool of valid transactions and every iteration order,
\* from_mempool returns a block of min(5, size of the mempool) transactions,
\* and no transaction left out has a fee greater than one of the block.
C14_FeeMaximizingSelection ==
    (op.name = "from_mempool" /\ AllValid) =>
        /\ op.res.kind = "Ok"
        /\ Len(op.res.tx_list) =
              IF Cardinality(mempool) < BlockCapacity THEN Cardinality(mempool)
              ELSE BlockCapacity
        /\ \A tx \in Members(op.res.tx_list) : \A out \in mempool \ Members(op.res.tx_list) :
              U32Le(is_valid(out, utxo_set).val, is_valid(tx, utxo_set).val)

NoRepeats(txs) == \A i, j \in 1..Len(txs) : txs[i] = txs[j] => i = j

Bounded(txs) ==
    /\ Len(txs) <= BlockCapacity
    /\ Members(txs) \subseteq mempool
    /\ NoRepeats(txs)

\* C15: at every step of from_mempool and in its result the candidate block
\* holds at most 5 transactions, all of them members of the mempool, none
\* of them twice.
C15_BoundedCandidate ==
    op.name = "from_mempool" =>
        /\ \A k \in 1..Len(op.res.steps) : Bounded(op.res.steps[k])
        /\ Bounded(op.res.tx_list)
        /\ blk.tx_list = op.res.tx_list

\* a mempool of more than 5 valid transactions, a transaction evicted for a
\* later one of a greater fee, and a block returned
C15_Witness ==
    /\ op.name = "from_mempool"
    /\ op.res.kind = "Ok"
    /\ Cardinality(mempool) > BlockCapacity
    /\ Len(op.res.tx_list) = BlockCapacity
    /\ \E k \in 1..Len(op.res.steps) : Len(op.res.steps[k]) = BlockCapacity - 1
    /\ \E i \in 1..BlockCapacity : op.arg[i] \notin Members(op.res.tx_list)

-----------------------------------------------------------------------------
(* Validation and the state around it *)

\* C16: is_valid and is_valid_block, whatever they return, leave the UTXO
\* set, the mempool and the block under construction unchanged; the set they
\* were given is the set that remains.
C16_ValidationIsPure ==
    [][op'.name \in {"is_valid", "is_valid_block"} =>
          /\ utxo_set' = utxo_set
          /\ op'.pre = utxo_set'
          /\ mempool' = mempool
          /\ blk' = blk]_vars

\* a transaction was found valid and the outputs it spends are still unspent
C16_Witness ==
    /\ op.name = "is_valid"
    /\ op.res.kind = "Ok"
    /\ InputKeys(op.arg) # {}
    /\ InputKeys(op.arg) \subseteq DOMAIN utxo_set
    /\ utxo_set = op.pre

-----------------------------------------------------------------------------
(* Rewinding several blocks: the blocks are undone one by one from the tip  *)
(* with one pending set, and the pending outputs are resolved afterwards    *)
(* from the log of the blocks that remain.                                  *)

Rewinding == op.name \in {"rewind", "update_all_pending_utxos"}

\* blocks are admitted and applied until the rewind starts
RewindApply(txs) ==
    /\ ~Rewinding
    /\ ReceiveBlock(txs, 0)

\* the tip r.block, read backward from the chain log, is undone into u; the
\* cursor stays before its record
RewindUndo(r, u) ==
    /\ utxo_set' = u.utxo
    /\ pending_set' = u.pending
    /\ pos' = r.pos
    /\ previous_block_hash' = r.block.previous_block
    /\ block_height' = block_height - 1
    /\ hist' = SubSeq(hist, 1, Len(hist) - 1)
    /\ op' = Op("rewind", r.block, "Pending", hist[Len(hist)], << >>)
    /\ UNCHANGED <<conn, swf, overflow_checks, difficulty, reward, mempool, file, blk, log>>

RewindStep ==
    /\ op.name # "update_all_pending_utxos"
    /\ block_height > 0
    /\ from_file_backwads(file, pos).kind = "Some"
    /\ RewindUndo(from_file_backwads(file, pos),
                  rewind(from_file_backwads(file, pos).block, utxo_set, pending_set))

\* update_all_pending_utxos has run on the shared pending set and ended as a
RewindResolved(a) ==
    /\ op.name = "rewind"
    /\ utxo_set' = a.utxo
    /\ pending_set' = a.pending
    /\ pos' = a.pos
    /\ op' = Op("update_all_pending_utxos", pos, a.kind, op.pre, << >>)
    /\ UNCHANGED <<conn, swf, overflow_checks, difficulty, reward, block_height,
                   previous_block_hash, mempool, file, blk, hist, log>>

RewindResolve == RewindResolved(update_all_pending_utxos(file, pos, utxo_set, pending_set))

NextRewind ==
    \/ \E txs \in BlockBodies : RewindApply(txs)
    \/ RewindStep
    \/ RewindResolve

SpecRewind == Init /\ [][NextRewind]_vars

\* C17: after valid blocks B1..Bh were applied, the n last of them rewound
\* from the tip with one shared pending set and the pending outputs resolved
\* from the log, the pending set is empty and the UTXO set is the one that
\* held right after B(h-n) was applied.
C17_MultiBlockRewind ==
    op.name = "update_all_pending_utxos" =>
        /\ op.res = "Ok"
        /\ pending_set = {}
        /\ utxo_set = op.pre

-----------------------------------------------------------------------------
(* Resolving pending outputs from a chain log: the log is written record    *)
(* after record, the cursor is moved by backward reads, and                 *)
(* update_all_pending_utxos is called with a pending set.                   *)

\* keys of outputs the blocks of ChainBlocks create, and one no block creates
PendingSets ==
    {{}, {<<IdCb10, 0>>}, {<<IdSpend, 1>>}, {<<IdCb10, 0>>, <<IdSpend, 0>>},
     {<<Zeros(HashLen), 0>>}}

\* the unwrap of a failed seek or read ended the process
PendingCrashed == op.name = "update_all_pending_utxos" /\ op.res.kind = "Panic"

PendingWrite(b) ==
    /\ ~PendingCrashed
    /\ pos = Len(file)
    /\ ChainWrite(b)

PendingReadBackward ==
    /\ ~PendingCrashed
    /\ ChainReadBackward

\* update_all_pending_utxos(chain, utxo_set, utxos_to_add) ends as a
PendingResolved(utxos_to_add, a) ==
    /\ ~PendingCrashed
    /\ ~Crashed
    /\ utxo_set' = a.utxo
    /\ pending_set' = a.pending
    /\ pos' = a.pos
    /\ op' = Op("update_all_pending_utxos", [pending |-> utxos_to_add, pos |-> pos],
                a, utxo_set, << >>)
    /\ UNCHANGED <<conn, swf, overflow_checks, difficulty, reward, block_height,
                   previous_block_hash, mempool, file, blk, hist, log>>

PendingResolve(utxos_to_add) ==
    PendingResolved(utxos_to_add, update_all_pending_utxos(file, pos, utxo_set, utxos_to_add))

NextPending ==
    \/ \E b \in ChainBlocks : PendingWrite(b)
    \/ PendingReadBackward
    \/ \E utxos_to_add \in PendingSets : PendingResolve(utxos_to_add)

SpecPending == InitChain /\ [][NextPending]_vars

\* C18: for every pending set and chain log update_all_pending_utxos returns
\* with the pending set empty and the cursor where it was when the call
\* started; with an empty pending set it changes neither the UTXO set nor
\* the cursor.
C18_PendingResolutionReturns ==
    op.name = "update_all_pending_utxos" =>
        /\ op.res.kind = "Ok"
        /\ pending_set = {}
        /\ pos = op.arg.pos
        /\ op.arg.pending = {} => utxo_set = op.pre

-----------------------------------------------------------------------------
(* Applying a valid block, and validating a block whose transactions refer  *)
(* to each other, against a UTXO snapshot.                                  *)

IdCb11 == calculate_id(TxCb11)

\* spends the coinbase TxCb11 with fee 1
TxSpendCb11 == Transaction(11, <<sign(IdCb11, 0, K2)>>, <<Output(K1, N(10))>>)

\* bodies of blocks that are applied: the scenarios of the specification, and
\* a block whose coinbase is the transaction TxCb11 that another transaction
\* of the block spends from the snapshot
ApplyBodies ==
    {<<TxCb10>>, <<TxCb11>>, <<TxSpend, TxCb11>>, <<TxCb11, TxSpend>>, <<TxSpend2, TxCb10>>,
     <<TxSpendCb11, TxCb11>>, <<TxCb11, TxSpendCb11>>}

\* bodies in which TxSpendCb11 spends the output of TxCb11 of the same block
ChainedBodies ==
    {<<TxSpendCb11, TxCb11>>, <<TxCb11, TxSpendCb11>>,
     <<TxWrap, TxSpendCb11, TxCb11>>, <<TxWrap, TxCb11, TxSpendCb11>>,
     <<TxSpendCb11, TxCb11, TxWrap>>, <<TxBadSig, TxCb11, TxSpendCb11>>}

\* a block b that is_valid_block accepts is applied: b.update_utxo_set(&mut utxo_set)
ApplyValid(b) ==
    /\ block_height < MaxHeight
    /\ is_valid_block(b, difficulty, reward, utxo_set) = "Ok"
    /\ utxo_set' = update_utxo_set(b, utxo_set)
    /\ block_height' = block_height + 1
    /\ op' = Op("update_utxo_set", b, "Ok", utxo_set, << >>)
    /\ UNCHANGED <<conn, swf, pending_set, overflow_checks, difficulty, reward,
                   previous_block_hash, mempool, file, pos, blk, hist, log>>

ApplyBlock(txs, nonce) == ApplyValid(Block(previous_block_hash, 1, txs, nonce))

NextApply ==
    \/ \E txs \in ApplyBodies, nonce \in 0..MaxNonce : ApplyBlock(txs, nonce)
    \/ \E txs \in ChainedBodies, nonce \in 0..MaxNonce : ValidateBlock(txs, nonce)

SpecApply == InitValidate /\ [][NextApply]_vars

RECURSIVE RemoveAllInputs(_, _, _)
RemoveAllInputs(b, i, utxo) ==
    IF i > Len(b.tx_list) THEN utxo
    ELSE RemoveAllInputs(b, i + 1, Remove(utxo, InputKeys(b.tx_list[i])))

RECURSIVE InsertAllOutputs(_, _, _)
InsertAllOutputs(b, i, utxo) ==
    IF i > Len(b.tx_list) THEN utxo
    ELSE InsertAllOutputs(b, i + 1, InsertOutputs(utxo, b.tx_list[i]))

\* the inputs of the whole block removed, then the outputs of the whole block inserted
RemovalsFirst(b, utxo) == InsertAllOutputs(b, 1, RemoveAllInputs(b, 1, utxo))

\* the outputs of the whole block inserted, then the inputs of the whole block removed
InsertionsFirst(b, utxo) == RemoveAllInputs(b, 1, InsertAllOutputs(b, 1, utxo))

\* C19: for a block that is_valid_block accepts against u, update_utxo_set
\* (per transaction: inputs removed, then outputs inserted) gives the set
\* that removing all inputs and then inserting all outputs gives, and the
\* set that inserting all outputs and then removing all inputs gives.
C19_ApplicationOrderIrrelevant ==
    op.name = "update_utxo_set" =>
        /\ utxo_set = RemovalsFirst(op.arg, op.pre)
        /\ utxo_set = InsertionsFirst(op.arg, op.pre)

\* a transaction of b has an input that is an output of another transaction
\* of b and not a key of utxo
Chained(b, utxo) ==
    \E i, j \in 1..Len(b.tx_list) :
        /\ i # j
        /\ (InputKeys(b.tx_list[i]) \cap OutputKeys(b.tx_list[j])) \ DOMAIN utxo # {}

\* C20: a block that passes proof of work and holds a transaction spending
\* an output of another transaction of the same block, that output not
\* being in the pre-block UTXO set, gets InvalidTransaction from
\* is_valid_block, whatever the order of the transactions.
C20_NoChainedSpends ==
    (/\ op.name = "is_valid_block"
     /\ op.res # "InvalidHash"
     /\ Chained(op.arg, op.pre)) => op.res = "InvalidTransaction"

-----------------------------------------------------------------------------
(* A block that is_valid_block accepts is applied to the UTXO set and the   *)
(* mempool: update_utxo_set, then update_mempool.                           *)

\* coinbase claiming reward + fee 2
TxCb12 == Transaction(12, << >>, <<Output(K2, N(12))>>)

\* names the output of the first coinbase in both of its inputs, fee 1
TxDouble == Transaction(13, <<sign(IdCb10, 0, K1), sign(IdCb10, 0, K1)>>,
                            <<Output(K2, N(19))>>)

\* spends the first coinbase like TxSpend, at another time, fee 1
TxSpendAgain == Transaction(14, <<sign(IdCb10, 0, K1)>>, <<Output(K2, N(9))>>)

EffectBodies ==
    ApplyBodies \cup
    {<<TxDouble, TxCb11>>, <<TxSpend, TxSpend, TxCb12>>, <<TxSpend, TxSpendAgain, TxCb12>>,
     <<TxHalf, TxHalf>>}

\* mempools of transactions admitted against an earlier UTXO set
EffectMempools == {{}, {TxSpend}, {TxSpend, TxSpendAgain}, {TxSpend2, TxSpendCb11}}

InitEffects ==
    /\ overflow_checks \in BOOLEAN
    /\ difficulty = 0
    /\ reward = N(DefaultReward)
    /\ block_height = 0
    /\ previous_block_hash = Zeros(HashLen)
    /\ utxo_set \in Snapshots
    /\ mempool \in EffectMempools
    /\ file = << >>
    /\ pos = 0
    /\ blk = NewBlock(0)
    /\ op = NoOp
    /\ hist = << >>
    /\ log = EmptyLog
    /\ swf = NoStateFile
    /\ pending_set = {}
    /\ conn = NoConn

\* b.update_utxo_set(&mut utxo_set); b.update_mempool(&mut mempool) for a
\* block b that is_valid_block accepted
EffectsOf(b) ==
    /\ block_height < MaxHeight
    /\ is_valid_block(b, difficulty, reward, utxo_set) = "Ok"
    /\ utxo_set' = update_utxo_set(b, utxo_set)
    /\ mempool' = update_mempool(b, mempool)
    /\ block_height' = block_height + 1
    /\ op' = Op("apply", b, "Ok", [utxo_set |-> utxo_set, mempool |-> mempool], << >>)
    /\ UNCHANGED <<conn, swf, pending_set, overflow_checks, difficulty, reward,
                   previous_block_hash, file, pos, blk, hist, log>>

ApplyEffects(txs) == EffectsOf(Block(previous_block_hash, block_height + 1, txs, 0))

\* a transaction arrives and is admitted to the mempool when valid
AdmitTransaction(tx) ==
    /\ is_valid(tx, utxo_set).kind = "Ok"
    /\ tx \notin mempool
    /\ mempool' = mempool \cup {tx}
    /\ op' = Op("admit", tx, "Ok", [utxo_set |-> utxo_set, mempool |-> mempool], << >>)
    /\ UNCHANGED <<conn, swf, pending_set, overflow_checks, difficulty, reward, block_height,
                   previous_block_hash, utxo_set, file, pos, blk, hist, log>>

NextEffects ==
    \/ \E txs \in EffectBodies : ApplyEffects(txs)
    \/ \E tx \in ArrivingTxs : AdmitTransaction(tx)

SpecEffects == InitEffects /\ [][NextEffects]_vars

BlockInputKeys(b) == UNION {InputKeys(b.tx_list[i]) : i \in 1..Len(b.tx_list)}

BlockOutputKeys(b) == UNION {OutputKeys(b.tx_list[i]) : i \in 1..Len(b.tx_list)}

\* C21: after update_utxo_set and update_mempool for a block b the UTXO set
\* maps (id of tx, i) to output i for every transaction of b, holds no key
\* an input of b names, and agrees with the pre-block set on every other
\* key; the mempool holds no transaction of b and every other transaction
\* it held before.
C21_BlockApplicationEffects ==
    op.name = "apply" =>
        /\ \A i \in 1..Len(op.arg.tx_list) : \A k \in OutputKeys(op.arg.tx_list[i]) :
              k \in DOMAIN utxo_set /\ utxo_set[k] = op.arg.tx_list[i].outputs[k[2] + 1]
        /\ BlockInputKeys(op.arg) \cap DOMAIN utxo_set = {}
        /\ \A k \in (DOMAIN utxo_set \cup DOMAIN op.pre.utxo_set)
                      \ (BlockInputKeys(op.arg) \cup BlockOutputKeys(op.arg)) :
              /\ k \in DOMAIN utxo_set
              /\ k \in DOMAIN op.pre.utxo_set
              /\ utxo_set[k] = op.pre.utxo_set[k]
        /\ mempool = op.pre.mempool \ Members(op.arg.tx_list)

\* the exact sum of the amounts of a UTXO set
RECURSIVE SumUtxo(_)
SumUtxo(utxo) ==
    IF DOMAIN utxo = {} THEN Wide(U32Zero)
    ELSE WideAdd(SumUtxo(Remove(utxo, {CHOOSE k \in DOMAIN utxo : TRUE})),
                 utxo[CHOOSE k \in DOMAIN utxo : TRUE].amount)

\* C22: applying a block that is_valid_block accepts raises the sum of the
\* amounts of the UTXO set by exactly the reward.
C22_ValueConservation ==
    op.name = "apply" => SumUtxo(utxo_set) = WideAdd(SumUtxo(op.pre.utxo_set), reward)

\* the inputs of all transactions of b, in list order
RECURSIVE AllInputs(_, _)
AllInputs(b, i) ==
    IF i > Len(b.tx_list) THEN << >> ELSE b.tx_list[i].inputs \o AllInputs(b, i + 1)

\* C23: in a block that is_valid_block accepts no UTXO key is named by more
\* than one input, within one transaction or across transactions, and no
\* transaction occurs twice.
C23_NoDoubleSpendInBlock ==
    op.name = "apply" =>
        /\ \A i, j \in 1..Len(AllInputs(op.arg, 1)) :
              AllInputs(op.arg, 1)[i].core = AllInputs(op.arg, 1)[j].core => i = j
        /\ NoRepeats(op.arg.tx_list)

-----------------------------------------------------------------------------
(* networking/message.rs: wait_for_magic on one connection.  conn.stream    *)
(* holds the bytes read so far, conn.rest the part of the magic still       *)
(* expected, conn.res the result once the function has returned.            *)

\* b"rusty"
Magic == <<114, 117, 115, 116, 121>>

\* the bytes a peer sends: those of the magic and one other byte
StreamBytes == {Magic[i] : i \in 1..Len(Magic)} \cup {0}

\* the first connection starts wait_for_magic: rest = magic
InitMagic ==
    /\ overflow_checks = FALSE
    /\ difficulty = 0
    /\ reward = N(DefaultReward)
    /\ block_height = 0
    /\ previous_block_hash = Zeros(HashLen)
    /\ utxo_set = EmptyUtxo
    /\ mempool = {}
    /\ file = << >>
    /\ pos = 0
    /\ blk = NewBlock(0)
    /\ op = NoOp
    /\ hist = << >>
    /\ log = EmptyLog
    /\ swf = NoStateFile
    /\ pending_set = {}
    /\ conn = [NoConn EXCEPT !.rest = Magic, !.res = "reading"]

\* one byte b was read: the rest that is expected afterwards
MatchByte(rest, b) == IF b # rest[1] THEN Magic ELSE Tail(rest)

\* conn.read returned Ok(1) with the byte b
MagicByte(b, rest) ==
    /\ conn.res = "reading"
    /\ Len(conn.stream) < MaxStream
    /\ conn' = [conn EXCEPT !.stream = Append(@, b),
                            !.rest = rest,
                            !.res = IF rest = << >> THEN "Ok" ELSE "reading"]
    /\ UNCHANGED <<overflow_checks, difficulty, reward, block_height, previous_block_hash,
                   utxo_set, mempool, file, pos, blk, op, hist, log, swf, pending_set>>

MagicRead(b) == MagicByte(b, MatchByte(conn.rest, b))

\* conn.read returned Ok(0): the peer closed the connection
MagicEof ==
    /\ conn.res = "reading"
    /\ conn' = [conn EXCEPT !.res = "Interrupted"]
    /\ UNCHANGED <<overflow_checks, difficulty, reward, block_height, previous_block_hash,
                   utxo_set, mempool, file, pos, blk, op, hist, log, swf, pending_set>>

\* conn.read returned Err: the loop continues with rest unchanged
MagicReadError ==
    /\ conn.res = "reading"
    /\ conn.errors < MaxReadErrors
    /\ conn' = [conn EXCEPT !.errors = @ + 1]
    /\ UNCHANGED <<overflow_checks, difficulty, reward, block_height, previous_block_hash,
                   utxo_set, mempool, file, pos, blk, op, hist, log, swf, pending_set>>

NextMagic ==
    \/ \E b \in StreamBytes : MagicRead(b)
    \/ MagicEof
    \/ MagicReadError

SpecMagic == InitMagic /\ [][NextMagic]_vars

\* the first n bytes of stream end with the magic
EndsWithMagic(stream, n) ==
    /\ n >= Len(Magic)
    /\ SubSeq(stream, n - Len(Magic) + 1, n) = Magic

\* C24: wait_for_magic returns Ok right after the first byte at which the
\* bytes read so far end with "rusty", and returns the interrupted error
\* only when the stream ended before any such position.
C24_MagicDetection ==
    /\ EndsWithMagic(conn.stream, Len(conn.stream)) => conn.res = "Ok"
    /\ conn.res = "Ok" => EndsWithMagic(conn.stream, Len(conn.stream))
    /\ conn.res = "Interrupted" =>
          \A n \in 1..Len(conn.stream) : ~EndsWithMagic(conn.stream, n)

====
